---- MODULE Spec2Model ----
(***************************************************************************)
(* Study session of lang-deck: the learningSessionReducer of               *)
(* LearningSessionPage.tsx, the handlers that wire the UI to it, and the   *)
(* card store (cardService.updateCard) the handlers write to.              *)
(***************************************************************************)
EXTENDS Bags, FiniteSets, Integers, Sequences, TLC

\* ------------------------------------------------------------------ bounds
MaxCards == 5            \* largest card list handed to a reducer-level session
MaxExchanges == 1        \* exchanges the random sort makes in the large sessions
MaxFlagCards == 2        \* largest pool on which flips, swipe directions and
                         \* status events are explored
MaxSessionCards == 2     \* largest card list handed to a session with its store
MaxPending == 1          \* store writes in flight at one time
MaxSwipesPerCard == 2    \* onSwipe calls one mounted card can deliver
MaxFailures == 1         \* failed writes of one kind in one session
MaxMergeCards == 3       \* records in the store of the duplicates page
MaxOverlap == 2          \* undo requests in flight at one time
MaxCalls == 2            \* calls of the settings service in one run
MaxImportIds == 3        \* ids the store and the rows of a CSV file can name
MaxImportCards == 2      \* flashcards of one import
MaxTimestamp == 2        \* instants at which an import can run

\* ------------------------------------------------------- program constants
WindowCap == 4           \* Math.min(4, ...) of INITIALIZE_CARDS and UNDO

NoError == "null"
NoCardsError == "No cards available. Please go back and try different filters."
NoDirection == "undefined"
Directions == {"left", "right", "down"}
UndefinedId == 0         \* the id of a card read from outside an array
NoKey == 0               \* the id of a settings object that has no id property
Missing == "missing"     \* a property a Partial<Settings> does not have
Languages == {"Français", "Anglais"}

VARIABLES
    location,         \* location.state: whether the caller passed a state
                      \* (state), whether it has a card list (hasCards), and
                      \* the list (cards)
    cards,            \* state.cards: the visible window, top card last
    initialCards,     \* state.initialCards: the shuffled pool
    nextCardIndex,    \* state.nextCardIndex (0-based index into the pool)
    discardedCards,   \* state.discardedCards: most recent last
    loading,          \* state.loading
    error,            \* state.error
    pc,               \* "mount" before the location-state effect ran, "ready" after
    store,            \* db.cards: id -> the persisted record
    pending,          \* bag of updateCard calls whose promise is not settled
    swiped,           \* ids of the TinderCards that called onSwipe and still
                      \* have to call onCardLeftScreen
    issued,           \* id -> outcome writes issued since the card entered the window
    console,          \* console.error calls of the handlers' catch blocks, by handler
    settings,         \* db.settings: the records of the settings table
    keyGenerator,     \* the last key the table's ++id generator gave out
    DEFAULT_SETTINGS, \* the module's DEFAULT_SETTINGS object
    calls             \* the calls of the settings service, in the order made

settingsVars == <<settings, keyGenerator, DEFAULT_SETTINGS, calls>>

vars == <<location, cards, initialCards, nextCardIndex, discardedCards, loading,
          error, pc, store, pending, swiped, issued, console, settingsVars>>

sessionVars == <<cards, initialCards, nextCardIndex, discardedCards, loading, error>>

\* ----------------------------------------------------------------- helpers
Min(a, b) == IF a <= b THEN a ELSE b

Reverse(s) == [i \in 1..Len(s) |-> s[Len(s) + 1 - i]]

IdsOf(s) == {s[i].id : i \in 1..Len(s)}

\* { ...card, isFlipped: false } of INITIALIZE_CARDS
CardWithFlipState(card) ==
    [id |-> card.id, isFlipped |-> FALSE, isRestoring |-> FALSE,
     swipeDirection |-> NoDirection, correctCount |-> card.correctCount,
     wrongCount |-> card.wrongCount, revisitCount |-> card.revisitCount]

\* What JavaScript yields for an element outside the array, once spread
\* into a card: a card without an id.
UndefinedCard ==
    CardWithFlipState([id |-> UndefinedId, correctCount |-> 0, wrongCount |-> 0,
                       revisitCount |-> 0])

\* array[i], 0-based
At(s, i) == IF i \in 0..(Len(s) - 1) THEN s[i + 1] ELSE UndefinedCard

\* Array.prototype.find(card => card.id === cardId): the first match, as a
\* set of at most one card
Find(s, cardId) ==
    LET hits == {i \in 1..Len(s) : s[i].id = cardId}
    IN  IF hits = {} THEN {}
        ELSE {s[CHOOSE i \in hits : \A j \in hits : i <= j]}

\* Array.prototype.filter(card => card.id !== cardId)
Without(s, cardId) == SelectSeq(s, LAMBDA c : c.id # cardId)

\* ---------------------------------------------------------- the card store
\* The record of card id in db.cards when the session starts.
StoredCard(id) ==
    [id |-> id, correctCount |-> 3 * id, wrongCount |-> id, revisitCount |-> id - 1]

\* The orders reached from `orders` by at most k exchanges of neighbours.
RECURSIVE Exchanged(_, _)
Exchanged(orders, k) ==
    IF k = 0 THEN orders
    ELSE LET swap(s, i) == [s EXCEPT ![i] = s[i + 1], ![i + 1] = s[i]]
             more == orders \cup
                     UNION {{swap(s, i) : i \in 1..(Len(s) - 1)} : s \in orders}
         IN  IF more = orders THEN orders ELSE Exchanged(more, k - 1)

\* [...payload].sort(() => Math.random() - 0.5): an order of the payload the
\* sort reaches with at most `exchanges` exchanges; Len(payload)^2 of them
\* reach every order.
Shuffles(payload, exchanges) == Exchanged({payload}, exchanges)

AnyOrder(payload) == Len(payload) * Len(payload)

\* ------------------------------------------------- learningSessionReducer
State ==
    [cards |-> cards, initialCards |-> initialCards, nextCardIndex |-> nextCardIndex,
     discardedCards |-> discardedCards, loading |-> loading, error |-> error]

\* INITIALIZE_CARDS without the cap on the first window.
INITIALIZE_CARDS_Uncapped(st, shuffled) ==
    LET shuffledCards == [i \in 1..Len(shuffled) |-> CardWithFlipState(shuffled[i])]
        initialCount == Len(shuffledCards)
    IN  [st EXCEPT !.initialCards = shuffledCards,
                   !.cards = Reverse(SubSeq(shuffledCards, 1, initialCount)),
                   !.nextCardIndex = initialCount,
                   !.loading = FALSE,
                   !.discardedCards = <<>>]

\* INITIALIZE_CARDS that does not reverse the first window.
INITIALIZE_CARDS_NoReverse(st, shuffled) ==
    LET shuffledCards == [i \in 1..Len(shuffled) |-> CardWithFlipState(shuffled[i])]
        initialCount == Min(WindowCap, Len(shuffledCards))
    IN  [st EXCEPT !.initialCards = shuffledCards,
                   !.cards = SubSeq(shuffledCards, 1, initialCount),
                   !.nextCardIndex = initialCount,
                   !.loading = FALSE,
                   !.discardedCards = <<>>]

INITIALIZE_CARDS(st, shuffled) ==
    LET shuffledCards == [i \in 1..Len(shuffled) |-> CardWithFlipState(shuffled[i])]
        initialCount == Min(WindowCap, Len(shuffledCards))
    IN  [st EXCEPT !.initialCards = shuffledCards,
                   !.cards = Reverse(SubSeq(shuffledCards, 1, initialCount)),
                   !.nextCardIndex = initialCount,
                   !.loading = FALSE,
                   !.discardedCards = <<>>]

\* CARD_LEFT_SCREEN putting the next pool card at the end of the window.
CARD_LEFT_SCREEN_Appends(st, cardId) ==
    LET found == Find(st.cards, cardId)
    IN  IF found = {} THEN st
        ELSE
          LET discardedCard == CHOOSE c \in found : TRUE
              remainingCards == Without(st.cards, cardId)
              newDiscardedCards == Append(st.discardedCards, discardedCard)
          IN  IF st.nextCardIndex < Len(st.initialCards)
              THEN LET nextCard == At(st.initialCards, st.nextCardIndex)
                   IN  [st EXCEPT !.cards = Append(remainingCards,
                                               [nextCard EXCEPT !.isFlipped = FALSE]),
                                  !.discardedCards = newDiscardedCards,
                                  !.nextCardIndex = st.nextCardIndex + 1]
              ELSE [st EXCEPT !.cards = remainingCards,
                              !.discardedCards = newDiscardedCards,
                              !.nextCardIndex = st.nextCardIndex + 1]

\* CARD_LEFT_SCREEN refilling while nextCardIndex <= length.
CARD_LEFT_SCREEN_OffByOne(st, cardId) ==
    LET found == Find(st.cards, cardId)
    IN  IF found = {} THEN st
        ELSE
          LET discardedCard == CHOOSE c \in found : TRUE
              remainingCards == Without(st.cards, cardId)
              newDiscardedCards == Append(st.discardedCards, discardedCard)
          IN  IF st.nextCardIndex <= Len(st.initialCards)
              THEN LET nextCard == At(st.initialCards, st.nextCardIndex)
                   IN  [st EXCEPT !.cards = <<[nextCard EXCEPT !.isFlipped = FALSE]>>
                                             \o remainingCards,
                                  !.discardedCards = newDiscardedCards,
                                  !.nextCardIndex = st.nextCardIndex + 1]
              ELSE [st EXCEPT !.cards = remainingCards,
                              !.discardedCards = newDiscardedCards,
                              !.nextCardIndex = st.nextCardIndex + 1]

\* CARD_LEFT_SCREEN leaving nextCardIndex alone once the pool is used up.
CARD_LEFT_SCREEN_NoTailIncrement(st, cardId) ==
    LET found == Find(st.cards, cardId)
    IN  IF found = {} THEN st
        ELSE
          LET discardedCard == CHOOSE c \in found : TRUE
              remainingCards == Without(st.cards, cardId)
              newDiscardedCards == Append(st.discardedCards, discardedCard)
          IN  IF st.nextCardIndex < Len(st.initialCards)
              THEN LET nextCard == At(st.initialCards, st.nextCardIndex)
                   IN  [st EXCEPT !.cards = <<[nextCard EXCEPT !.isFlipped = FALSE]>>
                                             \o remainingCards,
                                  !.discardedCards = newDiscardedCards,
                                  !.nextCardIndex = st.nextCardIndex + 1]
              ELSE [st EXCEPT !.cards = remainingCards,
                              !.discardedCards = newDiscardedCards]

CARD_LEFT_SCREEN(st, cardId) ==
    LET found == Find(st.cards, cardId)
    IN  IF found = {} THEN st
        ELSE
          LET discardedCard == CHOOSE c \in found : TRUE
              remainingCards == Without(st.cards, cardId)
              newDiscardedCards == Append(st.discardedCards, discardedCard)
          IN  IF st.nextCardIndex < Len(st.initialCards)
              THEN LET nextCard == At(st.initialCards, st.nextCardIndex)
                   IN  [st EXCEPT !.cards = <<[nextCard EXCEPT !.isFlipped = FALSE]>>
                                             \o remainingCards,
                                  !.discardedCards = newDiscardedCards,
                                  !.nextCardIndex = st.nextCardIndex + 1]
              ELSE [st EXCEPT !.cards = remainingCards,
                              !.discardedCards = newDiscardedCards,
                              !.nextCardIndex = st.nextCardIndex + 1]

\* FLIP_CARD that turns the card face up instead of toggling it.
FLIP_CARD_SetsTrue(st, cardId) ==
    [st EXCEPT !.cards = [i \in 1..Len(st.cards) |->
        IF st.cards[i].id = cardId
        THEN [st.cards[i] EXCEPT !.isFlipped = TRUE]
        ELSE st.cards[i]]]

\* FLIP_CARD that toggles every card of the window.
FLIP_CARD_FlipsAll(st, cardId) ==
    [st EXCEPT !.cards = [i \in 1..Len(st.cards) |->
        IF cardId \in IdsOf(st.cards)
        THEN [st.cards[i] EXCEPT !.isFlipped = ~st.cards[i].isFlipped]
        ELSE st.cards[i]]]

FLIP_CARD(st, cardId) ==
    [st EXCEPT !.cards = [i \in 1..Len(st.cards) |->
        IF st.cards[i].id = cardId
        THEN [st.cards[i] EXCEPT !.isFlipped = ~st.cards[i].isFlipped]
        ELSE st.cards[i]]]

\* UNDO without its check of an empty discard stack.
UNDO_NoGuard(st) ==
    LET lastDiscardedCard == At(st.discardedCards, Len(st.discardedCards) - 1)
        initialCount == Min(WindowCap, Len(st.initialCards))
        updatedCards == IF Len(st.cards) >= initialCount /\ Len(st.cards) > 0
                        THEN SubSeq(st.cards, 2, Len(st.cards))
                        ELSE st.cards
    IN  [st EXCEPT !.discardedCards = SubSeq(st.discardedCards, 1,
                                             Len(st.discardedCards) - 1),
                   !.cards = Append(updatedCards,
                               [lastDiscardedCard EXCEPT !.isFlipped = FALSE,
                                                         !.isRestoring = TRUE]),
                   !.nextCardIndex = IF st.nextCardIndex > 0
                                     THEN st.nextCardIndex - 1 ELSE 0]

\* UNDO that restores the card with the face it was discarded with.
UNDO_KeepsFlip(st) ==
    IF Len(st.discardedCards) = 0 THEN st
    ELSE
      LET lastDiscardedCard == At(st.discardedCards, Len(st.discardedCards) - 1)
          initialCount == Min(WindowCap, Len(st.initialCards))
          updatedCards == IF Len(st.cards) >= initialCount
                          THEN SubSeq(st.cards, 2, Len(st.cards))
                          ELSE st.cards
      IN  [st EXCEPT !.discardedCards = SubSeq(st.discardedCards, 1,
                                               Len(st.discardedCards) - 1),
                     !.cards = Append(updatedCards,
                                 [lastDiscardedCard EXCEPT !.isRestoring = TRUE]),
                     !.nextCardIndex = IF st.nextCardIndex > 0
                                       THEN st.nextCardIndex - 1 ELSE 0]

\* UNDO that evicts the window's last card instead of its first.
UNDO_EvictsLast(st) ==
    IF Len(st.discardedCards) = 0 THEN st
    ELSE
      LET lastDiscardedCard == At(st.discardedCards, Len(st.discardedCards) - 1)
          initialCount == Min(WindowCap, Len(st.initialCards))
          updatedCards == IF Len(st.cards) >= initialCount
                          THEN SubSeq(st.cards, 1, Len(st.cards) - 1)
                          ELSE st.cards
      IN  [st EXCEPT !.discardedCards = SubSeq(st.discardedCards, 1,
                                               Len(st.discardedCards) - 1),
                     !.cards = Append(updatedCards,
                                 [lastDiscardedCard EXCEPT !.isFlipped = FALSE,
                                                           !.isRestoring = TRUE]),
                     !.nextCardIndex = IF st.nextCardIndex > 0
                                       THEN st.nextCardIndex - 1 ELSE 0]

\* UNDO that never evicts the window's first card.
UNDO_NoShift(st) ==
    IF Len(st.discardedCards) = 0 THEN st
    ELSE
      LET lastDiscardedCard == At(st.discardedCards, Len(st.discardedCards) - 1)
      IN  [st EXCEPT !.discardedCards = SubSeq(st.discardedCards, 1,
                                               Len(st.discardedCards) - 1),
                     !.cards = Append(st.cards,
                                 [lastDiscardedCard EXCEPT !.isFlipped = FALSE,
                                                           !.isRestoring = TRUE]),
                     !.nextCardIndex = IF st.nextCardIndex > 0
                                       THEN st.nextCardIndex - 1 ELSE 0]

\* UNDO that leaves nextCardIndex where it is.
UNDO_KeepsCursor(st) ==
    IF Len(st.discardedCards) = 0 THEN st
    ELSE
      LET lastDiscardedCard == At(st.discardedCards, Len(st.discardedCards) - 1)
          initialCount == Min(WindowCap, Len(st.initialCards))
          updatedCards == IF Len(st.cards) >= initialCount
                          THEN SubSeq(st.cards, 2, Len(st.cards))
                          ELSE st.cards
      IN  [st EXCEPT !.discardedCards = SubSeq(st.discardedCards, 1,
                                               Len(st.discardedCards) - 1),
                     !.cards = Append(updatedCards,
                                 [lastDiscardedCard EXCEPT !.isFlipped = FALSE,
                                                           !.isRestoring = TRUE])]

UNDO(st) ==
    IF Len(st.discardedCards) = 0 THEN st
    ELSE
      LET lastDiscardedCard == At(st.discardedCards, Len(st.discardedCards) - 1)
          initialCount == Min(WindowCap, Len(st.initialCards))
          updatedCards == IF Len(st.cards) >= initialCount
                          THEN SubSeq(st.cards, 2, Len(st.cards))
                          ELSE st.cards
      IN  [st EXCEPT !.discardedCards = SubSeq(st.discardedCards, 1,
                                               Len(st.discardedCards) - 1),
                     !.cards = Append(updatedCards,
                                 [lastDiscardedCard EXCEPT !.isFlipped = FALSE,
                                                           !.isRestoring = TRUE]),
                     !.nextCardIndex = IF st.nextCardIndex > 0
                                       THEN st.nextCardIndex - 1 ELSE 0]

\* SET_ERROR that leaves the loading flag as it is.
SET_ERROR_KeepsLoading(st, msg) == [st EXCEPT !.error = msg]

SET_ERROR(st, msg) == [st EXCEPT !.error = msg, !.loading = FALSE]

SET_LOADING(st, b) == [st EXCEPT !.loading = b]

UPDATE_CARD(st, payload) ==
    [st EXCEPT !.cards = [i \in 1..Len(st.cards) |->
        IF st.cards[i].id = payload.id THEN payload ELSE st.cards[i]]]

\* dispatch: the reducer's result becomes the component's state
Dispatch(st) ==
    /\ cards' = st.cards
    /\ initialCards' = st.initialCards
    /\ nextCardIndex' = st.nextCardIndex
    /\ discardedCards' = st.discardedCards
    /\ loading' = st.loading
    /\ error' = st.error

\* What the page renders for a state (the early returns of the component).
View(st) ==
    IF st.loading THEN "loading"
    ELSE IF st.error # NoError THEN "error"
    ELSE IF Len(st.cards) = 0
         THEN (IF Len(st.initialCards) > 0 THEN "complete" ELSE "no-cards")
         ELSE "session"

\* ---------------------------------------------------------- construction
\* useReducer's initial state and the caller's navigation state: the stored
\* cards 1..n for an n up to maxCards, a state without a card list, or no
\* state at all.
\* The settings service after the module has loaded, before any call, with
\* the given records in its table: DEFAULT_SETTINGS as written in the source.
NoSettingsCalls(table) ==
    /\ settings = table
    /\ keyGenerator = Cardinality(table)
    /\ DEFAULT_SETTINGS = [id |-> NoKey, knownLanguage |-> "Français",
                           learningLanguage |-> "Anglais"]
    /\ calls = <<>>

InitSession(maxCards) ==
    /\ store = [id \in 1..maxCards |-> StoredCard(id)]
    /\ \/ \E n \in 0..maxCards :
            location = [state |-> TRUE, hasCards |-> TRUE,
                        cards |-> [i \in 1..n |-> [id |-> store[i].id,
                                     correctCount |-> store[i].correctCount,
                                     wrongCount |-> store[i].wrongCount,
                                     revisitCount |-> store[i].revisitCount]]]
       \/ location = [state |-> TRUE, hasCards |-> FALSE, cards |-> <<>>]
       \/ location = [state |-> FALSE, hasCards |-> FALSE, cards |-> <<>>]
    /\ cards = <<>>
    /\ initialCards = <<>>
    /\ nextCardIndex = 0
    /\ discardedCards = <<>>
    /\ loading = TRUE
    /\ error = NoError
    /\ pc = "mount"
    /\ pending = EmptyBag
    /\ swiped = {}
    /\ issued = [id \in 1..maxCards |-> 0]
    /\ console = [handleSwipe |-> 0, handleUndo |-> 0]
    /\ NoSettingsCalls({})

\* !initialCards?.length of the effect, initialCards being the cards of
\* location.state ?? { cards: [] }: no state, no card list, or an empty one.
NoLength(loc) == ~loc.state \/ ~loc.hasCards \/ Len(loc.cards) = 0

\* The effect on location.state: SET_ERROR for an empty list,
\* INITIALIZE_CARDS otherwise.
MountEffect(exchanges) ==
    /\ pc = "mount"
    /\ pc' = "ready"
    /\ IF NoLength(location)
       THEN Dispatch(SET_ERROR(State, NoCardsError))
       ELSE \E shuffled \in Shuffles(location.cards, exchanges) :
              Dispatch(INITIALIZE_CARDS(State, shuffled))
    /\ UNCHANGED <<settingsVars, location, store, pending, swiped, issued, console>>

\* --------------------------------------------- the reducer, event by event
otherVars == <<location, pc, store, pending, swiped, issued, console, settingsVars>>

CardExited(cardId) ==
    /\ pc = "ready"
    /\ Dispatch(CARD_LEFT_SCREEN(State, cardId))
    /\ UNCHANGED otherVars

Undo ==
    /\ pc = "ready"
    /\ Dispatch(UNDO(State))
    /\ UNCHANGED otherVars

Flip(cardId) ==
    /\ pc = "ready"
    /\ Len(initialCards) <= MaxFlagCards
    /\ Dispatch(FLIP_CARD(State, cardId))
    /\ UNCHANGED otherVars

\* The two payloads the page dispatches: a window card with its swipe
\* direction set, and the restoring card with isRestoring cleared.
UpdateCard ==
    /\ pc = "ready"
    /\ \E i \in 1..Len(cards) :
         \/ /\ Len(initialCards) <= MaxFlagCards
            /\ \E dir \in Directions :
                 Dispatch(UPDATE_CARD(State, [cards[i] EXCEPT !.swipeDirection = dir]))
         \/ /\ cards[i].isRestoring
            /\ Dispatch(UPDATE_CARD(State, [cards[i] EXCEPT !.isRestoring = FALSE]))
    /\ UNCHANGED otherVars

SetError ==
    /\ pc = "ready"
    /\ Len(initialCards) <= MaxFlagCards
    /\ Dispatch(SET_ERROR(State, NoCardsError))
    /\ UNCHANGED otherVars

SetLoading ==
    /\ pc = "ready"
    /\ Len(initialCards) <= MaxFlagCards
    /\ \E b \in BOOLEAN : Dispatch(SET_LOADING(State, b))
    /\ UNCHANGED otherVars

\* Sessions driven by CardExited alone, over every order of the pool.
InitExit == InitSession(MaxCards)

NextExit ==
    \/ MountEffect(AnyOrder(location.cards))
    \/ \E cardId \in 0..MaxCards : CardExited(cardId)

ExitSpec == InitExit /\ [][NextExit]_vars

\* Sessions in which the card on top of the stack (the last of the window,
\* rendered last) is the one that exits, over every order of the pool.
ExitTop ==
    /\ Len(cards) > 0
    /\ CardExited(cards[Len(cards)].id)

InitTopExit == InitSession(MaxCards)

NextTopExit ==
    \/ MountEffect(AnyOrder(location.cards))
    \/ ExitTop

TopExitSpec == InitTopExit /\ [][NextTopExit]_vars

\* Sessions driven by the six events of the reducer.
InitReducer == InitSession(MaxCards)

NextReducer ==
    \/ MountEffect(IF Len(location.cards) <= MaxFlagCards
                   THEN AnyOrder(location.cards) ELSE MaxExchanges)
    \/ \E cardId \in 0..MaxCards : CardExited(cardId)
    \/ \E cardId \in 0..MaxCards : Flip(cardId)
    \/ Undo
    \/ UpdateCard
    \/ SetError
    \/ SetLoading

ReducerSpec == InitReducer /\ [][NextReducer]_vars

\* ------------------------------------------------ the page and its store
Counters(c) ==
    [correctCount |-> c.correctCount, wrongCount |-> c.wrongCount,
     revisitCount |-> c.revisitCount]

\* The session-only keys a card object carries into a write.
TransientKeys(card) ==
    {"isFlipped"}
    \cup (IF card.swipeDirection # NoDirection THEN {"swipeDirection"} ELSE {})
    \cup (IF card.isRestoring THEN {"isRestoring"} ELSE {})

\* cardService.updateCard: db.cards.update(card.id, {...card, updatedAt}),
\* which overwrites the counters of an existing record.
updateCard(db, card) ==
    IF card.id \in DOMAIN db
    THEN [db EXCEPT ![card.id] =
            [id |-> card.id, correctCount |-> card.correctCount,
             wrongCount |-> card.wrongCount, revisitCount |-> card.revisitCount]]
    ELSE db

\* handleSwipe without its branch for "down": every swipe that is not
\* "right" counts as wrong.
handleSwipeWrite_DownAsWrong(card, dir) ==
    LET isCorrect == (dir = "right")
    IN  [card EXCEPT !.correctCount = card.correctCount + (IF isCorrect THEN 1 ELSE 0),
                     !.wrongCount = card.wrongCount + (IF isCorrect THEN 0 ELSE 1)]

\* The card handleSwipe passes to updateCard for a swipe in direction dir.
handleSwipeWrite(card, dir) ==
    IF dir = "down"
    THEN [card EXCEPT !.revisitCount = card.revisitCount + 1]
    ELSE LET isCorrect == (dir = "right")
         IN  [card EXCEPT !.correctCount = card.correctCount + (IF isCorrect THEN 1 ELSE 0),
                          !.wrongCount = card.wrongCount + (IF isCorrect THEN 0 ELSE 1)]

\* handleUndo taking the swipe back from the card's counters instead of
\* writing the pool entry's.
handleUndoWrite_Decrement(lastCard, originalCard) ==
    IF lastCard.swipeDirection = "down"
    THEN [lastCard EXCEPT !.revisitCount = lastCard.revisitCount - 1]
    ELSE IF lastCard.swipeDirection = "right"
    THEN [lastCard EXCEPT !.correctCount = lastCard.correctCount - 1]
    ELSE [lastCard EXCEPT !.wrongCount = lastCard.wrongCount - 1]

\* The card handleUndo passes to updateCard.
handleUndoWrite(lastCard, originalCard) ==
    [lastCard EXCEPT !.correctCount = originalCard.correctCount,
                     !.wrongCount = originalCard.wrongCount,
                     !.revisitCount = originalCard.revisitCount]

\* A catch block that reports the failure to the session.
handleSwipeCatch_SetsError(st) == SET_ERROR(st, "Failed to update card")

\* The session state after handleSwipe's catch block: console.error only.
handleSwipeCatch(st) == st

\* The session state after handleUndo's catch block: console.error only.
handleUndoCatch(st) == st

\* The session state after handleUndo's await has resolved: dispatch UNDO.
handleUndoResume(st) == UNDO(st)

\* A call of updateCard in flight: the handler that made it, the swipe it
\* records, and the card object it was given (its id, its counters and the
\* session-only keys it carries).
Write(kind, dir, card) ==
    [kind |-> kind, dir |-> dir,
     card |-> [id |-> card.id, correctCount |-> card.correctCount,
               wrongCount |-> card.wrongCount, revisitCount |-> card.revisitCount,
               keys |-> TransientKeys(card)]]

\* A card that enters the window is a newly mounted TinderCard.
Mounted(newCards) ==
    [id \in DOMAIN issued |->
        IF id \in IdsOf(newCards) \ IdsOf(cards) THEN 0 ELSE issued[id]]

\* handleSwipe putting the counted card, not only its swipe direction, in
\* the window.
handleSwipe_CountsInWindow(cardId, dir) ==
    /\ pc = "ready"
    /\ View(State) = "session"
    /\ cardId \in IdsOf(cards)
    /\ IF dir \notin Directions THEN UNCHANGED vars
       ELSE
         LET card == CHOOSE c \in Find(cards, cardId) : TRUE
         IN  /\ BagCardinality(pending) < MaxPending
             /\ issued[cardId] < MaxSwipesPerCard
             /\ Dispatch(UPDATE_CARD(State, [handleSwipeWrite(card, dir)
                                                EXCEPT !.swipeDirection = dir]))
             /\ pending' = pending (+) SetToBag({Write("swipe", dir, handleSwipeWrite(card, dir))})
             /\ swiped' = swiped \cup {cardId}
             /\ issued' = [issued EXCEPT ![cardId] = issued[cardId] + 1]
             /\ UNCHANGED <<settingsVars, location, pc, store, console>>

\* onSwipe of the TinderCard of cardId.  The library reports every
\* direction, "up" included, and may report a card again while it flies out.
handleSwipe(cardId, dir) ==
    /\ pc = "ready"
    /\ View(State) = "session"
    /\ cardId \in IdsOf(cards)
    /\ IF dir \notin Directions THEN UNCHANGED vars
       ELSE
         LET card == CHOOSE c \in Find(cards, cardId) : TRUE
         IN  /\ BagCardinality(pending) < MaxPending
             /\ issued[cardId] < MaxSwipesPerCard
             /\ Dispatch(UPDATE_CARD(State, [card EXCEPT !.swipeDirection = dir]))
             /\ pending' = pending (+) SetToBag({Write("swipe", dir, handleSwipeWrite(card, dir))})
             /\ swiped' = swiped \cup {cardId}
             /\ issued' = [issued EXCEPT ![cardId] = issued[cardId] + 1]
             /\ UNCHANGED <<settingsVars, location, pc, store, console>>

\* onCardLeftScreen of the TinderCard of cardId, after its onSwipe.
handleCardLeftScreen(cardId) ==
    /\ pc = "ready"
    /\ cardId \in swiped
    /\ swiped' = swiped \ {cardId}
    /\ IF Find(cards, cardId) = {}
       THEN UNCHANGED <<sessionVars, issued>>
       ELSE LET next == CARD_LEFT_SCREEN(State, cardId)
            IN  /\ Dispatch(next)
                /\ issued' = Mounted(next.cards)
    /\ UNCHANGED <<settingsVars, location, pc, store, pending, console>>

\* The updateCard calls handleUndo makes in session state st: none after
\* one of its early returns, one otherwise.
handleUndoRequest(st) ==
    IF Len(st.discardedCards) = 0 THEN {}
    ELSE
      LET lastCard == At(st.discardedCards, Len(st.discardedCards) - 1)
          originalCard == Find(st.initialCards, lastCard.id)
      IN  IF originalCard = {} THEN {}
          ELSE {Write("undo", NoDirection,
                      handleUndoWrite(lastCard, CHOOSE c \in originalCard : TRUE))}

\* The undo button: handleUndo up to its await, while fewer than maxPending
\* calls of updateCard are in flight.  The button stays enabled while a
\* revert is in flight, and the handler reads the state of the last render.
handleUndoWithin(maxPending) ==
    /\ pc = "ready"
    /\ View(State) \in {"session", "complete"}
    /\ IF handleUndoRequest(State) = {} THEN UNCHANGED vars
       ELSE /\ BagCardinality(pending) < maxPending
            /\ pending' = pending (+) SetToBag(handleUndoRequest(State))
            /\ UNCHANGED <<settingsVars, location, sessionVars, pc, store, swiped, issued, console>>

handleUndo == handleUndoWithin(MaxPending)

\* The promise of a pending updateCard resolves: the record is written, and
\* handleUndo resumes after its await.
updateCardResolves(w) ==
    /\ BagIn(w, pending)
    /\ pending' = pending (-) SetToBag({w})
    /\ store' = updateCard(store, w.card)
    /\ IF w.kind = "undo"
       THEN LET next == handleUndoResume(State)
            IN  /\ Dispatch(next)
                /\ issued' = Mounted(next.cards)
       ELSE UNCHANGED <<sessionVars, issued>>
    /\ UNCHANGED <<settingsVars, location, pc, swiped, console>>

\* The promise of a pending updateCard rejects: the handler's catch block runs.
updateCardRejects(w) ==
    /\ BagIn(w, pending)
    /\ pending' = pending (-) SetToBag({w})
    /\ IF w.kind = "undo"
       THEN /\ console.handleUndo < MaxFailures
            /\ console' = [console EXCEPT !.handleUndo = console.handleUndo + 1]
            /\ Dispatch(handleUndoCatch(State))
       ELSE /\ console.handleSwipe < MaxFailures
            /\ console' = [console EXCEPT !.handleSwipe = console.handleSwipe + 1]
            /\ Dispatch(handleSwipeCatch(State))
    /\ UNCHANGED <<settingsVars, location, pc, store, swiped, issued>>

\* A click or tap on the card of cardId.
handleCardClick(cardId) ==
    /\ pc = "ready"
    /\ View(State) = "session"
    /\ cardId \in IdsOf(cards)
    /\ Dispatch(FLIP_CARD(State, cardId))
    /\ UNCHANGED otherVars

\* The 500 ms timer of the restoring effect fires.
restoringTimer ==
    /\ pc = "ready"
    /\ \E i \in 1..Len(cards) :
         /\ cards[i].isRestoring
         /\ \A j \in 1..(i - 1) : ~cards[j].isRestoring
         /\ Dispatch(UPDATE_CARD(State, [cards[i] EXCEPT !.isRestoring = FALSE]))
    /\ UNCHANGED otherVars

Init == InitSession(MaxSessionCards)

Next ==
    \/ MountEffect(AnyOrder(location.cards))
    \/ \E cardId \in 1..MaxSessionCards, dir \in Directions \cup {"up"} :
         handleSwipe(cardId, dir)
    \/ \E cardId \in 1..MaxSessionCards : handleCardLeftScreen(cardId)
    \/ handleUndo
    \/ \E w \in BagToSet(pending) : updateCardResolves(w)
    \/ \E w \in BagToSet(pending) : updateCardRejects(w)
    \/ \E cardId \in 1..MaxSessionCards : handleCardClick(cardId)
    \/ restoringTimer

Spec == Init /\ [][Next]_vars

\* ------------------------------------------------ overlapping undo requests

\* The session page with up to MaxOverlap undo requests in flight at once:
\* swipes, exits, undo clicks, and the writes resolving or rejecting in any
\* order.

InitOverlap == InitSession(MaxSessionCards)

NextOverlap ==
    \/ MountEffect(AnyOrder(location.cards))
    \/ \E cardId \in 1..MaxSessionCards, dir \in Directions \cup {"up"} :
         handleSwipe(cardId, dir)
    \/ \E cardId \in 1..MaxSessionCards : handleCardLeftScreen(cardId)
    \/ handleUndoWithin(MaxOverlap)
    \/ \E w \in BagToSet(pending) : updateCardResolves(w)
    \/ \E w \in BagToSet(pending) : updateCardRejects(w)

OverlapSpec == InitOverlap /\ [][NextOverlap]_vars

\* ------------------------------------------- cardService.mergeCards
\* An optional array field of IFlashCard is a set holding at most one
\* sequence: {} when the field is undefined.
OrEmpty(field) == IF field = {} THEN <<>> ELSE CHOOSE s \in field : TRUE

\* Array.from(new Set(items)): the first occurrence of each element, in order.
RECURSIVE Unique(_)
Unique(items) ==
    IF items = <<>> THEN <<>>
    ELSE LET front == Unique(SubSeq(items, 1, Len(items) - 1))
             last == items[Len(items)]
         IN  IF \E i \in 1..Len(front) : front[i] = last
             THEN front ELSE Append(front, last)

\* list.flatMap(card => card[key] || [])
RECURSIVE FlatMap(_, _)
FlatMap(list, key) ==
    IF list = <<>> THEN <<>>
    ELSE OrEmpty(list[1][key]) \o FlatMap(Tail(list), key)

\* list.reduce((sum, card) => sum + card[key], 0)
RECURSIVE Reduce(_, _, _)
Reduce(list, key, sum) ==
    IF list = <<>> THEN sum
    ELSE Reduce(Tail(list), key, sum + list[1][key])

\* A record of db.cards with its optional array fields.
FlashCard(id, tags, contextKnown, contextLearning) ==
    [id |-> id, tags |-> tags, contextKnown |-> contextKnown,
     contextLearning |-> contextLearning,
     correctCount |-> StoredCard(id).correctCount,
     wrongCount |-> StoredCard(id).wrongCount,
     revisitCount |-> StoredCard(id).revisitCount]

\* mergeCards that keeps the counters of the first card.
mergeCards_KeepsBaseCounts(db, list) ==
    IF Len(list) < 2 THEN db
    ELSE
      LET baseCard == list[1]
          cardsToDelete == Tail(list)
          merged(key) == Unique(OrEmpty(baseCard[key]) \o FlatMap(cardsToDelete, key))
          mergedCard == [baseCard EXCEPT
                            !.contextKnown = {merged("contextKnown")},
                            !.contextLearning = {merged("contextLearning")},
                            !.tags = {merged("tags")}]
          put == [id \in DOMAIN db \cup {mergedCard.id} |->
                     IF id = mergedCard.id THEN mergedCard ELSE db[id]]
          deleted == {cardsToDelete[i].id : i \in 1..Len(cardsToDelete)}
      IN  [id \in DOMAIN put \ deleted |-> put[id]]

\* mergeCards: db.cards.put(mergedCard), then bulkDelete of the other ids,
\* in one transaction.
mergeCards(db, list) ==
    IF Len(list) < 2 THEN db
    ELSE
      LET baseCard == list[1]
          cardsToDelete == Tail(list)
          merged(key) == Unique(OrEmpty(baseCard[key]) \o FlatMap(cardsToDelete, key))
          mergedCard == [baseCard EXCEPT
                            !.contextKnown = {merged("contextKnown")},
                            !.contextLearning = {merged("contextLearning")},
                            !.tags = {merged("tags")},
                            !.correctCount = Reduce(list, "correctCount", 0),
                            !.wrongCount = Reduce(list, "wrongCount", 0),
                            !.revisitCount = Reduce(list, "revisitCount", 0)]
          put == [id \in DOMAIN db \cup {mergedCard.id} |->
                     IF id = mergedCard.id THEN mergedCard ELSE db[id]]
          deleted == {cardsToDelete[i].id : i \in 1..Len(cardsToDelete)}
      IN  [id \in DOMAIN put \ deleted |-> put[id]]

\* The lists of stored cards the duplicates page can hold: getCards() gives
\* each record once, so the cards of a list have different ids.
CardLists(db) ==
    UNION {{[i \in 1..k |-> db[s[i]]] :
               s \in {f \in [1..k -> DOMAIN db] :
                        \A i, j \in 1..k : i # j => f[i] # f[j]}} :
           k \in 0..Cardinality(DOMAIN db)}

TagChoices == {{}, {<<"b", "a">>}, {<<"a", "a">>}}
ContextChoices ==
    {[known |-> {}, learning |-> {<<"y">>}],
     [known |-> {<<"x">>}, learning |-> {}],
     [known |-> {<<"x", "x">>}, learning |-> {<<"y">>}]}

\* The duplicates page over a store of MaxMergeCards records; no session is
\* mounted.
InitMerge ==
    /\ \E tags \in [1..MaxMergeCards -> TagChoices],
          contexts \in [1..MaxMergeCards -> ContextChoices] :
         store = [id \in 1..MaxMergeCards |->
                     FlashCard(id, tags[id], contexts[id].known,
                               contexts[id].learning)]
    /\ location = [state |-> FALSE, hasCards |-> FALSE, cards |-> <<>>]
    /\ cards = <<>>
    /\ initialCards = <<>>
    /\ nextCardIndex = 0
    /\ discardedCards = <<>>
    /\ loading = TRUE
    /\ error = NoError
    /\ pc = "duplicates"
    /\ pending = EmptyBag
    /\ swiped = {}
    /\ issued = [id \in 1..MaxMergeCards |-> 0]
    /\ console = [handleSwipe |-> 0, handleUndo |-> 0]
    /\ NoSettingsCalls({})

\* handleMergeGroup / handleBulkMerge: mergeCards(group.cards) for a group
\* of two or more cards.
handleMergeGroup(group) ==
    /\ pc = "duplicates"
    /\ Len(group) > 1
    /\ store' = mergeCards(store, group)
    /\ UNCHANGED <<settingsVars, location, sessionVars, pc, pending, swiped, issued, console>>

NextMerge == \E group \in CardLists(store) : handleMergeGroup(group)

MergeSpec == InitMerge /\ [][NextMerge]_vars

\* ----------------------------------------------------------- settingsService

\* The objects saveSettings can be given by the settings page: both
\* languages, no id.
SettingsObjects ==
    [id : {NoKey}, knownLanguage : Languages, learningLanguage : Languages]

\* The arguments of updateSettings: any subset of the two languages.
SettingsUpdates ==
    [knownLanguage : Languages \cup {Missing},
     learningLanguage : Languages \cup {Missing}]

\* { ...currentSettings, ...settingsUpdate }: the id of currentSettings, if
\* it has one, comes along.
Spread(currentSettings, settingsUpdate) ==
    [id |-> currentSettings.id,
     knownLanguage |-> IF settingsUpdate.knownLanguage = Missing
                       THEN currentSettings.knownLanguage
                       ELSE settingsUpdate.knownLanguage,
     learningLanguage |-> IF settingsUpdate.learningLanguage = Missing
                          THEN currentSettings.learningLanguage
                          ELSE settingsUpdate.learningLanguage]

\* db.settings.toArray(): the records in key order.
toArray(table) ==
    LET RECURSIVE Sorted(_)
        Sorted(rest) ==
            IF rest = {} THEN <<>>
            ELSE LET first == CHOOSE r \in rest : \A o \in rest : r.id <= o.id
                 IN  <<first>> \o Sorted(rest \ {first})
    IN  Sorted(table)

\* A call of the service: the function called, where it is (pc), the object
\* it passes to saveSettings (arg; isDefault when that object is
\* DEFAULT_SETTINGS itself), the argument of updateSettings, and the copy of
\* the object that db.settings.add took when it was called (request).
Call(fn, at, arg, settingsUpdate) ==
    [fn |-> fn, pc |-> at, arg |-> arg, isDefault |-> FALSE,
     settingsUpdate |-> settingsUpdate, request |-> arg]

NoUpdate == [knownLanguage |-> Missing, learningLanguage |-> Missing]

Idle == <<location, sessionVars, pc, store, pending, swiped, issued, console>>

\* saveSettings(s) is called: it runs up to its first await.
saveSettings(s) ==
    /\ pc = "settings"
    /\ Len(calls) < MaxCalls
    /\ calls' = Append(calls, Call("saveSettings", "clear", s, NoUpdate))
    /\ UNCHANGED <<settings, keyGenerator, DEFAULT_SETTINGS, Idle>>

\* getOrCreateSettings() is called: it runs up to the await in getSettings.
getOrCreateSettings ==
    /\ pc = "settings"
    /\ Len(calls) < MaxCalls
    /\ calls' = Append(calls, Call("getOrCreateSettings", "toArray",
                                   DEFAULT_SETTINGS, NoUpdate))
    /\ UNCHANGED <<settings, keyGenerator, DEFAULT_SETTINGS, Idle>>

\* updateSettings(u) is called: it runs up to the await in getSettings.
updateSettings(settingsUpdate) ==
    /\ pc = "settings"
    /\ Len(calls) < MaxCalls
    /\ calls' = Append(calls, Call("updateSettings", "toArray",
                                   DEFAULT_SETTINGS, settingsUpdate))
    /\ UNCHANGED <<settings, keyGenerator, DEFAULT_SETTINGS, Idle>>

\* getSettings of call i reads the table.  With a record, getOrCreateSettings
\* returns it and updateSettings goes on to save the merged object; without
\* one, saveSettings(DEFAULT_SETTINGS) starts.
getSettings(i) ==
    /\ i \in 1..Len(calls)
    /\ calls[i].pc = "toArray"
    /\ LET settingsArray == toArray(settings)
       IN  calls' = [calls EXCEPT ![i] =
             IF Len(settingsArray) = 0
             THEN [@ EXCEPT !.pc = "clear", !.arg = DEFAULT_SETTINGS,
                            !.isDefault = TRUE]
             ELSE IF @.fn = "getOrCreateSettings"
             THEN [@ EXCEPT !.pc = "resolved", !.arg = settingsArray[1]]
             ELSE [@ EXCEPT !.pc = "clear",
                            !.arg = Spread(settingsArray[1],
                                           calls[i].settingsUpdate)]]
    /\ UNCHANGED <<settings, keyGenerator, DEFAULT_SETTINGS, Idle>>

\* db.settings.clear() of call i runs: every record goes, the key generator
\* keeps its value.
clear(i) ==
    /\ i \in 1..Len(calls)
    /\ calls[i].pc = "clear"
    /\ settings' = {}
    /\ calls' = [calls EXCEPT ![i].pc = "add"]
    /\ UNCHANGED <<keyGenerator, DEFAULT_SETTINGS, Idle>>

\* db.settings.add(settings) of call i copies the object it was given, as
\* the object is at that moment.
addRequest(i) ==
    /\ i \in 1..Len(calls)
    /\ calls[i].pc = "add"
    /\ calls' = [calls EXCEPT ![i].pc = "adding",
                              ![i].request = IF calls[i].isDefault
                                             THEN DEFAULT_SETTINGS
                                             ELSE calls[i].arg]
    /\ UNCHANGED <<settings, keyGenerator, DEFAULT_SETTINGS, Idle>>

\* The add of call i runs.  A copy without id gets the next key, which is
\* also set on the object passed in; a copy with an id is stored under it,
\* or rejected when the table has a record with that key.  After the save of
\* DEFAULT_SETTINGS updateSettings goes on to save the merged object.
add(i) ==
    /\ i \in 1..Len(calls)
    /\ calls[i].pc = "adding"
    /\ LET request == calls[i].request
           key == IF request.id = NoKey THEN keyGenerator + 1 ELSE request.id
           saved == IF request.id = NoKey
                    THEN [calls[i].arg EXCEPT !.id = key]
                    ELSE calls[i].arg
       IN  IF \E r \in settings : r.id = key
           THEN /\ calls' = [calls EXCEPT ![i].pc = "rejected"]
                /\ UNCHANGED <<settings, keyGenerator, DEFAULT_SETTINGS>>
           ELSE /\ settings' = settings \cup {[request EXCEPT !.id = key]}
                /\ keyGenerator' = IF key > keyGenerator THEN key ELSE keyGenerator
                /\ DEFAULT_SETTINGS' =
                      IF calls[i].isDefault /\ request.id = NoKey
                      THEN [DEFAULT_SETTINGS EXCEPT !.id = key]
                      ELSE DEFAULT_SETTINGS
                /\ calls' = [calls EXCEPT ![i] =
                      IF @.fn = "updateSettings" /\ @.isDefault
                      THEN [@ EXCEPT !.pc = "clear", !.isDefault = FALSE,
                                     !.arg = Spread(DEFAULT_SETTINGS',
                                                    calls[i].settingsUpdate)]
                      ELSE [@ EXCEPT !.pc = "resolved", !.arg = saved]]
    /\ UNCHANGED Idle

InitSettings ==
    /\ \/ NoSettingsCalls({})
       \/ \E known \in Languages, learning \in Languages :
            NoSettingsCalls({[id |-> 1, knownLanguage |-> known,
                              learningLanguage |-> learning]})
    /\ store = <<>>
    /\ location = [state |-> FALSE, hasCards |-> FALSE, cards |-> <<>>]
    /\ cards = <<>>
    /\ initialCards = <<>>
    /\ nextCardIndex = 0
    /\ discardedCards = <<>>
    /\ loading = TRUE
    /\ error = NoError
    /\ pc = "settings"
    /\ pending = EmptyBag
    /\ swiped = {}
    /\ issued = <<>>
    /\ console = [handleSwipe |-> 0, handleUndo |-> 0]

NextSettings ==
    \/ \E s \in SettingsObjects : saveSettings(s)
    \/ getOrCreateSettings
    \/ \E settingsUpdate \in SettingsUpdates : updateSettings(settingsUpdate)
    \/ \E i \in 1..MaxCalls : getSettings(i)
    \/ \E i \in 1..MaxCalls : clear(i)
    \/ \E i \in 1..MaxCalls : addRequest(i)
    \/ \E i \in 1..MaxCalls : add(i)

SettingsSpec == InitSettings /\ [][NextSettings]_vars

\* ------------------------------------- cardService.addMultipleFlashcardsToDB

Words == {"bonjour", "merci"}

\* { ...a, ...b }
SpreadInto(a, b) ==
    [f \in DOMAIN a \cup DOMAIN b |-> IF f \in DOMAIN b THEN b[f] ELSE a[f]]

\* The INewFlashCard processCsvData builds from a row: the row's ID (or a
\* new uuid) and its text; no counters, no timestamps.
NewFlashCard(id, known) == [id |-> id, known |-> known]

\* table.bulkAdd(items): every item is added under its id; an id that is
\* already there, or twice in items, fails the call.
RECURSIVE bulkAdd(_, _)
bulkAdd(db, items) ==
    IF items = <<>> THEN [ok |-> TRUE, db |-> db]
    ELSE IF items[1].id \in DOMAIN db THEN [ok |-> FALSE, db |-> db]
    ELSE bulkAdd([id \in DOMAIN db \cup {items[1].id} |->
                    IF id = items[1].id THEN items[1] ELSE db[id]],
                 Tail(items))

\* table.bulkPut(items): every item replaces the record with its id.
RECURSIVE bulkPut(_, _)
bulkPut(db, items) ==
    IF items = <<>> THEN db
    ELSE bulkPut([id \in DOMAIN db \cup {items[1].id} |->
                    IF id = items[1].id THEN items[1] ELSE db[id]],
                 Tail(items))

\* bulkPutNewOnly(table, items, propertiesToSetIfNew): the table afterwards.
\* A failed bulkAdd aborts the transaction.
bulkPutNewOnly(db, items, propertiesToSetIfNew) ==
    LET existingIds == {items[i].id : i \in 1..Len(items)} \cap DOMAIN db
        isNew(item) == item.id \notin existingIds
        isExisting(item) == item.id \in existingIds
        filtered == SelectSeq(items, isNew)
        newItems == [i \in 1..Len(filtered) |->
                        SpreadInto(filtered[i], propertiesToSetIfNew)]
        existingItemsToUpdate == SelectSeq(items, isExisting)
        added == IF Len(newItems) > 0 THEN bulkAdd(db, newItems)
                 ELSE [ok |-> TRUE, db |-> db]
    IN  IF ~added.ok THEN db
        ELSE IF Len(existingItemsToUpdate) > 0
        THEN bulkPut(added.db, existingItemsToUpdate)
        ELSE added.db

\* addMultipleFlashcardsToDB(flashcards) at the instant `timestamp`, which is
\* not before any write the store has seen.
addMultipleFlashcardsToDB(flashcards, timestamp) ==
    /\ pc = "import"
    /\ \A id \in DOMAIN store :
          "updatedAt" \in DOMAIN store[id] => store[id].updatedAt <= timestamp
    /\ store' = IF Len(flashcards) = 0 THEN store
                ELSE bulkPutNewOnly(store, flashcards,
                                    [createdAt |-> timestamp, updatedAt |-> timestamp,
                                     correctCount |-> 0, wrongCount |-> 0,
                                     revisitCount |-> 0])
    /\ UNCHANGED <<settingsVars, location, sessionVars, pc, pending, swiped,
                   issued, console>>

\* The flashcards of one CSV file.
Flashcards ==
    UNION {[1..n -> {NewFlashCard(id, known) :
                        id \in 1..MaxImportIds, known \in Words}] :
           n \in 0..MaxImportCards}

\* The importer over a store of studied cards, each created at instant 1.
InitImport ==
    /\ \E ids \in SUBSET (1..MaxImportIds) :
         \E known \in [ids -> Words] :
           store = [id \in ids |->
                      SpreadInto(NewFlashCard(id, known[id]),
                                 [createdAt |-> 1, updatedAt |-> 1,
                                  correctCount |-> StoredCard(id).correctCount,
                                  wrongCount |-> StoredCard(id).wrongCount,
                                  revisitCount |-> StoredCard(id).revisitCount])]
    /\ location = [state |-> FALSE, hasCards |-> FALSE, cards |-> <<>>]
    /\ cards = <<>>
    /\ initialCards = <<>>
    /\ nextCardIndex = 0
    /\ discardedCards = <<>>
    /\ loading = TRUE
    /\ error = NoError
    /\ pc = "import"
    /\ pending = EmptyBag
    /\ swiped = {}
    /\ issued = <<>>
    /\ console = [handleSwipe |-> 0, handleUndo |-> 0]
    /\ NoSettingsCalls({})

NextImport ==
    \E flashcards \in Flashcards, timestamp \in 1..MaxTimestamp :
        addMultipleFlashcardsToDB(flashcards, timestamp)

ImportSpec == InitImport /\ [][NextImport]_vars

\* ------------------------------------------------------------- the claims
Last(s) == s[Len(s)]

\* The pool entry of card id: its counters are the pre-session snapshot.
Baseline(id) == Counters(CHOOSE c \in Find(initialCards, id) : TRUE)

\* The counters after one swipe in direction dir from counters b.
Swiped(b, dir) ==
    [correctCount |-> b.correctCount + (IF dir = "right" THEN 1 ELSE 0),
     wrongCount |-> b.wrongCount + (IF dir = "left" THEN 1 ELSE 0),
     revisitCount |-> b.revisitCount + (IF dir = "down" THEN 1 ELSE 0)]

\* The writes of a handler that a step has put in flight.
Issued(kind) ==
    {w \in BagToSet(pending') :
        w.kind = kind /\ CopiesIn(w, pending') > CopiesIn(w, pending)}

\* C1: right after INITIALIZE_CARDS of a non-empty list of N cards the
\* window holds min(4, N) cards, nextCardIndex is min(4, N) and the discard
\* stack is empty.
C1_InitialWindow ==
    [][(pc = "mount" /\ pc' = "ready" /\ Len(location.cards) > 0) =>
          /\ Len(cards') = Min(4, Len(location.cards))
          /\ nextCardIndex' = Min(4, Len(location.cards))
          /\ discardedCards' = <<>>]_vars

C1_Witness ==
    /\ pc = "ready"
    /\ Len(location.cards) = 5
    /\ Len(cards) = 4
    /\ nextCardIndex = 4
    /\ discardedCards = <<>>

\* C2: after initialization, whatever events are dispatched, the window
\* holds at most 4 cards and every card of the window and of the discard
\* stack was read from inside its array (no read of the pool outside
\* 0..|pool|-1, which would put a card without id in the window).
C2_WindowBounded ==
    pc = "ready" =>
        /\ Len(cards) <= 4
        /\ nextCardIndex >= 0
        /\ UndefinedId \notin IdsOf(cards) \cup IdsOf(discardedCards)

\* A full window of a 5-card pool with a restored card on top and a card
\* still to undo: the next Undo has to evict.
C2_Witness ==
    /\ pc = "ready"
    /\ Len(initialCards) = 5
    /\ Len(cards) = 4
    /\ cards[4].isRestoring
    /\ discardedCards # <<>>
    /\ nextCardIndex >= Len(initialCards)

\* C3: with CardExited events alone on a pool of N >= 1 cards, the window
\* holds min(4, N - exits) cards, so it is empty exactly when N cards have
\* exited, and the empty window is rendered as the completed session.
C3_ExhaustCompletes ==
    (pc = "ready" /\ Len(location.cards) >= 1) =>
        /\ Len(initialCards) = Len(location.cards)
        /\ Len(discardedCards) <= Len(initialCards)
        /\ Len(cards) = Min(4, Len(initialCards) - Len(discardedCards))
        /\ (Len(cards) = 0 => /\ Len(discardedCards) = Len(initialCards)
                              /\ View(State) = "complete")

C3_Witness ==
    /\ pc = "ready"
    /\ Len(location.cards) = 5
    /\ cards = <<>>
    /\ Len(discardedCards) = 5
    /\ View(State) = "complete"

\* C4 as claimed: a 5-card session exited card after card ends with
\* nextCardIndex 5 and reports complete.
C4_Claimed ==
    (pc = "ready" /\ Len(location.cards) = 5 /\ cards = <<>>) =>
        /\ nextCardIndex = 5
        /\ View(State) = "complete"

\* C4, amended: a 5-card session exited card after card ends with
\* nextCardIndex 9 (the 4 of the first window plus one for each of the 5
\* exits) and reports complete, with initialCards non-empty.
C4_FinalCursor ==
    (pc = "ready" /\ Len(location.cards) = 5 /\ cards = <<>>) =>
        /\ nextCardIndex = 9
        /\ View(State) = "complete"
        /\ Len(initialCards) > 0

C4_Witness ==
    /\ pc = "ready"
    /\ Len(location.cards) = 5
    /\ cards = <<>>
    /\ nextCardIndex = 9

\* C5: a write issued by a swipe carries the card's session baseline with 1
\* added to correctCount for right, to wrongCount for left and to
\* revisitCount for down, and nothing else changed; so the stored counters
\* of a pool card are its baseline or its baseline after one swipe.
C5_SwipeOutcome ==
    /\ \A w \in BagToSet(pending) :
          w.kind = "swipe" => Counters(w.card) = Swiped(Baseline(w.card.id), w.dir)
    /\ \A i \in 1..Len(initialCards) :
          LET id == initialCards[i].id
          IN  Counters(store[id]) \in
                {Baseline(id)} \cup {Swiped(Baseline(id), dir) : dir \in Directions}

\* A down swipe has reached the store: revisitCount is one above the
\* baseline, correctCount and wrongCount are the baseline's.
C5_Witness ==
    \E i \in 1..Len(initialCards) :
        LET id == initialCards[i].id
        IN  Counters(store[id]) = Swiped(Baseline(id), "down")

\* C6: the write an undo request issues is for the most recently discarded
\* card and carries the counters of that card's pool entry, which are those
\* of the caller's card list.
C6_UndoWritesBaseline ==
    [][\A w \in Issued("undo") :
          /\ discardedCards # <<>>
          /\ w.card.id = Last(discardedCards).id
          /\ Counters(w.card) = Baseline(w.card.id)
          /\ \E i \in 1..Len(location.cards) :
                /\ location.cards[i].id = w.card.id
                /\ Counters(location.cards[i]) = Counters(w.card)]_vars

\* A revert in flight for a card whose stored counters have moved.
C6_Witness ==
    \E w \in BagToSet(pending) :
        /\ w.kind = "undo"
        /\ Counters(store[w.card.id]) # Counters(w.card)

\* C7 as claimed: when the revert write of an undo fails, the UNDO
\* transition is applied all the same.
C7_Claimed ==
    [][console'.handleUndo > console.handleUndo => State' = UNDO(State)]_vars

\* C8: a failed outcome write changes nothing of the session: the swiped
\* card stays in the window until it leaves the screen, no error is set, and
\* its exit is still to come.
C8_SwipeFailureKeepsSession ==
    [][console'.handleSwipe > console.handleSwipe =>
          /\ UNCHANGED sessionVars
          /\ swiped' = swiped
          /\ error' = NoError]_vars

\* A session that completed although an outcome write failed.
C8_Witness ==
    /\ console.handleSwipe > 0
    /\ View(State) = "complete"
    /\ Len(discardedCards) = Len(initialCards)
    /\ error = NoError

\* C9 as claimed: the UNDO transition is applied by the undo request itself,
\* without waiting for the revert write.
C9_Claimed ==
    [][Issued("undo") # {} => State' = UNDO(State)]_vars

\* C10 as claimed: every card in the discard stack had exactly one outcome
\* write issued for its exit, and a card with an outcome write is in the
\* window, about to exit, or in the discard stack.
C10_Claimed ==
    /\ \A i \in 1..Len(discardedCards) : issued[discardedCards[i].id] = 1
    /\ \A id \in DOMAIN issued :
          issued[id] > 0 => id \in IdsOf(cards) \cup IdsOf(discardedCards)

\* C11: whatever swipes (repeated ones included), exits and undos a session
\* makes, the stored counters of a pool card are its baseline or its
\* baseline with 1 added to exactly one counter.
C11_NoDoubleCount ==
    \A i \in 1..Len(initialCards) :
        LET id == initialCards[i].id
            b == Baseline(id)
            k == Counters(store[id])
        IN  /\ k.correctCount >= b.correctCount
            /\ k.wrongCount >= b.wrongCount
            /\ k.revisitCount >= b.revisitCount
            /\ (k.correctCount - b.correctCount) + (k.wrongCount - b.wrongCount)
                 + (k.revisitCount - b.revisitCount) <= 1

\* A card whose swipe was delivered twice, both writes stored, its counters
\* one above the baseline.
C11_Witness ==
    \E id \in DOMAIN issued :
        /\ issued[id] = 2
        /\ pending = EmptyBag
        /\ console.handleSwipe = 0
        /\ id \in IdsOf(discardedCards)
        /\ Counters(store[id]) # Baseline(id)

\* C12 as claimed: a stored counter decreases only in the step that stores
\* the revert write of an undo for that card.
C12_Claimed ==
    [][\A id \in DOMAIN store :
          (\/ store'[id].correctCount < store[id].correctCount
           \/ store'[id].wrongCount < store[id].wrongCount
           \/ store'[id].revisitCount < store[id].revisitCount)
          => \E w \in BagToSet(pending) :
                /\ w.kind = "undo"
                /\ w.card.id = id
                /\ pending' = pending (-) SetToBag({w})]_vars

\* C13: with an empty discard stack UNDO returns the state it was given and
\* handleUndo makes no updateCard call.
C13_UndoEmptyIsNoOp ==
    (pc = "ready" /\ discardedCards = <<>>) =>
        /\ UNDO(State) = State
        /\ handleUndoRequest(State) = {}

\* The discard stack brought back to empty by an undo, the restored card
\* still in its animation: the undo button can be pressed again.
C13_Witness ==
    /\ pc = "ready"
    /\ discardedCards = <<>>
    /\ View(State) = "session"
    /\ \E i \in 1..Len(cards) : cards[i].isRestoring
    /\ pending = EmptyBag

\* C14: a session started with no navigation state, with a state that has
\* no card list, or with an empty list has the no-cards error set and
\* loading cleared, and keeps an empty window, pool and discard stack and
\* nextCardIndex 0.
C14_NoCards ==
    (pc = "ready" /\ NoLength(location)) =>
        /\ error = NoCardsError
        /\ loading = FALSE
        /\ View(State) = "error"
        /\ cards = <<>>
        /\ initialCards = <<>>
        /\ discardedCards = <<>>
        /\ nextCardIndex = 0

C14_Witness ==
    /\ pc = "ready"
    /\ ~location.state
    /\ error = NoCardsError
    /\ ~loading

\* C15: from any state, CARD_LEFT_SCREEN of a window card followed by UNDO
\* gives a window whose last card has that id, is face down and is marked
\* restoring.
C15_ExitUndoRoundTrip ==
    pc = "ready" =>
        \A id \in IdsOf(cards) :
            LET s == UNDO(CARD_LEFT_SCREEN(State, id))
            IN  /\ Len(s.cards) > 0
                /\ Last(s.cards).id = id
                /\ Last(s.cards).isFlipped = FALSE
                /\ Last(s.cards).isRestoring = TRUE
                /\ s.discardedCards = discardedCards

\* A card brought back by an undo right after its exit: last in the
\* window, face down, restoring, next to a card that is face up.
C15_Witness ==
    /\ pc = "ready"
    /\ Len(initialCards) = 2
    /\ Len(cards) = 2
    /\ Last(cards).isRestoring
    /\ ~Last(cards).isFlipped
    /\ cards[1].isFlipped
    /\ discardedCards = <<>>
    /\ nextCardIndex = 2

\* C16: FLIP_CARD applied twice with the same id returns the state it
\* started from, for every id.
C16_FlipTwice ==
    pc = "ready" =>
        \A id \in 0..MaxCards :
            /\ FLIP_CARD(FLIP_CARD(State, id), id) = State
            /\ id \in IdsOf(cards) => FLIP_CARD(State, id) # State

\* A window with one card face up and one face down.
C16_Witness ==
    /\ pc = "ready"
    /\ Len(cards) = 2
    /\ cards[1].isFlipped
    /\ ~cards[2].isFlipped

\* C17 as claimed: no updateCard call of a swipe or an undo is given a card
\* object with isFlipped, isRestoring or swipeDirection.
C17_Claimed ==
    \A w \in BagToSet(pending) : w.card.keys = {}

\* The elements of an optional array field.
Items(field) == {OrEmpty(field)[i] : i \in 1..Len(OrEmpty(field))}

\* The sum of a counter over the cards of a list.
RECURSIVE Total(_, _)
Total(list, key) ==
    IF Len(list) = 0 THEN 0
    ELSE Total(SubSeq(list, 1, Len(list) - 1), key) + list[Len(list)][key]

\* C18: mergeCards of two or more stored cards leaves the first card's id
\* in the store with each counter the sum over the list and with tags and
\* both context lists the duplicate-free union over the list, removes the
\* other ids of the list and leaves the other records alone; of fewer than
\* two cards it leaves the store as it is.
C18_MergeCards ==
    pc = "duplicates" =>
        \A list \in CardLists(store) :
            LET db == mergeCards(store, list)
                others == {list[i].id : i \in 2..Len(list)}
            IN  IF Len(list) < 2 THEN db = store
                ELSE
                  LET kept == db[list[1].id]
                  IN  /\ DOMAIN db = DOMAIN store \ others
                      /\ list[1].id \in DOMAIN db
                      /\ kept.id = list[1].id
                      /\ \A key \in {"correctCount", "wrongCount", "revisitCount"} :
                            kept[key] = Total(list, key)
                      /\ \A key \in {"tags", "contextKnown", "contextLearning"} :
                            /\ Items(kept[key]) =
                                 UNION {Items(list[i][key]) : i \in 1..Len(list)}
                            /\ Len(OrEmpty(kept[key])) = Cardinality(Items(kept[key]))
                      /\ \A id \in DOMAIN db \ {list[1].id} : db[id] = store[id]

\* Three records merged into the second: its counters are the sums, its
\* tags the two tags of the three records.
C18_Witness ==
    /\ pc = "duplicates"
    /\ DOMAIN store = {2}
    /\ store[2].correctCount = 18
    /\ store[2].wrongCount = 6
    /\ store[2].revisitCount = 3
    /\ Items(store[2].tags) = {"a", "b"}
    /\ Len(OrEmpty(store[2].tags)) = 2

\* C19: CARD_LEFT_SCREEN of an id that is not in the window returns the
\* state; of a window card, it takes the card out of the window, appends it
\* to the discard stack, puts pool[nextCardIndex], face down, first in the
\* window when nextCardIndex < |pool|, and adds 1 to nextCardIndex either way.
C19_CardExited ==
    pc = "ready" =>
        \A id \in 0..MaxCards :
            LET s == CARD_LEFT_SCREEN(State, id)
                at == {i \in 1..Len(cards) : cards[i].id = id}
                rest == Without(cards, id)
                k == IF nextCardIndex < Len(initialCards) THEN 1 ELSE 0
            IN  IF at = {} THEN s = State
                ELSE /\ Len(s.cards) = k + Len(rest)
                     /\ \A i \in 1..Len(rest) : s.cards[k + i] = rest[i]
                     /\ k = 1 => s.cards[1] = [initialCards[nextCardIndex + 1]
                                                 EXCEPT !.isFlipped = FALSE]
                     /\ Len(s.discardedCards) = Len(discardedCards) + 1
                     /\ SubSeq(s.discardedCards, 1, Len(discardedCards)) = discardedCards
                     /\ Last(s.discardedCards) \in {cards[i] : i \in at}
                     /\ s.nextCardIndex = nextCardIndex + 1
                     /\ s.initialCards = initialCards
                     /\ s.loading = loading
                     /\ s.error = error

\* nextCardIndex above the pool size after exits of a used-up pool.
C19_Witness ==
    /\ pc = "ready"
    /\ Len(initialCards) = 5
    /\ nextCardIndex = 6
    /\ Len(cards) = 3
    /\ Len(discardedCards) = 2

\* C20: UNDO with a non-empty discard stack pops the last discarded card,
\* drops the window's first card when the window holds at least
\* min(4, |pool|) cards, appends the popped card face down and restoring,
\* and takes 1 from nextCardIndex without going below 0.
C20_Undo ==
    (pc = "ready" /\ discardedCards # <<>>) =>
        LET s == UNDO(State)
            popped == Last(discardedCards)
            full == Len(cards) >= Min(4, Len(initialCards))
            kept == IF full THEN Tail(cards) ELSE cards
        IN  /\ s.discardedCards = SubSeq(discardedCards, 1, Len(discardedCards) - 1)
            /\ Len(s.cards) = Len(kept) + 1
            /\ \A i \in 1..Len(kept) : s.cards[i] = kept[i]
            /\ Last(s.cards) = [popped EXCEPT !.isFlipped = FALSE, !.isRestoring = TRUE]
            /\ s.nextCardIndex = (IF nextCardIndex >= 1 THEN nextCardIndex - 1 ELSE 0)
            /\ s.nextCardIndex >= 0
            /\ s.initialCards = initialCards
            /\ s.loading = loading
            /\ s.error = error

\* An undo that had nothing to evict: two cards in the window of a 5-card
\* session, the restored one last, more cards still to undo.
C20_Witness ==
    /\ pc = "ready"
    /\ Len(initialCards) = 5
    /\ Len(cards) = 2
    /\ Last(cards).isRestoring
    /\ Len(discardedCards) = 3

\* The card ids of a sequence of cards, in order.
Ids(s) == [i \in 1..Len(s) |-> s[i].id]

\* How many cards of s have the id.
Count(s, id) == Cardinality({i \in 1..Len(s) : s[i].id = id})

\* C21 as claimed: no card id is twice in the discard stack.
C21_Claimed ==
    pc = "ready" =>
        \A i, j \in 1..Len(discardedCards) :
            i # j => discardedCards[i].id # discardedCards[j].id

C23_Claimed ==
    pc = "ready" =>
        \A i \in 1..Len(cards) :
            (cards[i].isRestoring /\ \A j \in 1..(i - 1) : ~cards[j].isRestoring) =>
                UPDATE_CARD(State, [cards[i] EXCEPT !.isRestoring = FALSE])
                  = [State EXCEPT !.cards[i].isRestoring = FALSE]

\* C25 as claimed: every pool card id is exactly once among the window, the
\* discard stack and the pool from nextCardIndex on.
C25_Claimed ==
    (pc = "ready" /\ Len(initialCards) > 0) =>
        \A i \in 1..Len(initialCards) :
            LET id == initialCards[i].id
                suffix == SubSeq(initialCards, nextCardIndex + 1, Len(initialCards))
            IN  Count(cards, id) + Count(discardedCards, id) + Count(suffix, id) = 1

\* C26: after initialization nextCardIndex is min(4, |pool|) plus the length
\* of the discard stack; so it is above 0 whenever there is a card to undo,
\* and |pool| - |discard stack| is within 0..|pool|.
C26_CursorIsProgress ==
    (pc = "ready" /\ Len(initialCards) > 0) =>
        /\ nextCardIndex = Min(4, Len(initialCards)) + Len(discardedCards)
        /\ discardedCards # <<>> => nextCardIndex > 0
        /\ Len(initialCards) - Len(discardedCards) \in 0..Len(initialCards)

\* Exits past the end of the pool followed by an undo.
C26_Witness ==
    /\ pc = "ready"
    /\ Len(initialCards) = 5
    /\ Len(discardedCards) = 4
    /\ nextCardIndex = 8
    /\ Len(cards) = 1
    /\ cards[1].isRestoring

\* C28 as claimed: CARD_LEFT_SCREEN of the last window card followed by
\* UNDO gives back the ids of the window in their order, nextCardIndex and
\* the discard stack.
C28_Claimed ==
    (pc = "ready" /\ Len(cards) > 0) =>
        LET s == UNDO(CARD_LEFT_SCREEN(State, Last(cards).id))
        IN  /\ Ids(s.cards) = Ids(cards)
            /\ s.nextCardIndex = nextCardIndex
            /\ s.discardedCards = discardedCards

\* C29: when the top card is the one that exits each time, the k-th card of
\* the discard stack is the k-th card of the shuffled pool, the card on top
\* is the next one of the pool, and the window is empty once all |pool|
\* cards have exited.
C29_PresentationOrder ==
    (pc = "ready" /\ Len(initialCards) > 0) =>
        /\ Len(discardedCards) <= Len(initialCards)
        /\ \A k \in 1..Len(discardedCards) :
              discardedCards[k].id = initialCards[k].id
        /\ cards # <<>> => Last(cards).id = initialCards[Len(discardedCards) + 1].id
        /\ cards = <<>> => Len(discardedCards) = Len(initialCards)

\* A 5-card pool, shuffled out of its list order, shown to its last card.
C29_Witness ==
    /\ pc = "ready"
    /\ Len(initialCards) = 5
    /\ Ids(initialCards) # Ids(location.cards)
    /\ Ids(discardedCards) = Ids(initialCards)
    /\ cards = <<>>

\* C27: whenever a card moves from the discard stack back to the window, the
\* step is the completion of a revert write issued for that card's own id,
\* also when undo requests overlap.
C27_Claimed ==
    [][Len(discardedCards') < Len(discardedCards)
         => \E w \in BagToSet(pending) :
                /\ w.kind = "undo"
                /\ pending' = pending (-) SetToBag({w})
                /\ w.card.id = Last(discardedCards).id]_vars

\* C24: once every call of saveSettings, getOrCreateSettings and
\* updateSettings has settled, however their steps interleaved, the settings
\* table holds at most one record.
C24_Claimed ==
    (\A i \in 1..Len(calls) : calls[i].pc \in {"resolved", "rejected"})
        => Cardinality(settings) <= 1

\* The value of property f of record r, if it has one.
Property(r, f) == IF f \in DOMAIN r THEN <<r[f]>> ELSE <<>>

\* C30: an import leaves every record that was in the store in the store,
\* with the correctCount, wrongCount, revisitCount and createdAt it had.
C30_Claimed ==
    [][\A id \in DOMAIN store :
          /\ id \in DOMAIN store'
          /\ \A f \in {"correctCount", "wrongCount", "revisitCount", "createdAt"} :
                Property(store'[id], f) = Property(store[id], f)]_vars
====
